---- MODULE Spec2Model ----
(***************************************************************************)
(* Pattern Resolution Engine of infrastructure-automation.                 *)
(*                                                                         *)
(* Two implementations of PatternResolver are modelled side by side:       *)
(*   "cli"    - src/scripts/resolve-pattern.py                             *)
(*   "dryrun" - src/terraform/platform/api/functions/dry-run/__init__.py   *)
(*                                                                         *)
(* Encoding of Python values.  A dict is a TLA+ function whose DOMAIN is   *)
(* the set of keys that are present.  Every scalar is a string: the YAML   *)
(* null / Python None is NULL, the booleans are "True" and "False", and    *)
(* numbers are written as strings.  A list is a sequence.  An error        *)
(* message built with an f-string is a record that keeps the message's     *)
(* fixed text in `kind` and the interpolated values in the other fields.   *)
(***************************************************************************)
EXTENDS Integers, Sequences, FiniteSets, TLC

(* impl             which implementation runs                              *)
(* patterns         self.patterns, the catalog                             *)
(* pattern_keys     list(self.patterns.keys()), in insertion order         *)
(* sizing_defaults  self.sizing_defaults                                   *)
(* pc               where main is: idle, returned (a single-document call  *)
(*                  has returned), resolve_all, respond, done, crashed     *)
(* call             the single-document call made and what it returned     *)
(* submitted        the documents of the submission as parsed              *)
(* documents        the same without the empty documents                   *)
(* i                the loop index of resolve_all                          *)
(* results          the result list of resolve_all                         *)
(* execution_order  what compute_execution_order returned                  *)
(* response         the batch output and exit code, or the HTTP response   *)
(* files            the sizing file and the pattern files on disk          *)
(* resolver         the module global `resolver` of the function app: 0    *)
(*                  for None, else the caller whose instance it holds      *)
(* instances        the PatternResolver each caller has constructed        *)
(* callers          the concurrent invocations of the function's main      *)
VARIABLES impl, patterns, pattern_keys, sizing_defaults, pc, call,
          submitted, documents, i, results, execution_order, response,
          files, resolver, instances, callers

vars == <<impl, patterns, pattern_keys, sizing_defaults, pc, call,
          submitted, documents, i, results, execution_order, response,
          files, resolver, instances, callers>>

\* Longest submission (number of YAML documents) that main is given.
MaxDocs == 4

\* Number of invocations of the function that run at the same time.
MaxCallers == 2

-----------------------------------------------------------------------------
(* Python dict and list helpers *)

NULL == "<null>"

\* A value that may be None where the other values are no strings: None is
\* the empty sequence, a value v is <<v>>.
NoneValue == <<>>
Some(v) == <<v>>

EmptyDict == [k \in {} |-> ""]

\* d.get(k, default)
Get(d, k, default) == IF k \in DOMAIN d THEN d[k] ELSE default

\* d1.update(d2): keys of d2 win
Update(d1, d2) ==
    [k \in (DOMAIN d1) \cup (DOMAIN d2) |-> IF k \in DOMAIN d2 THEN d2[k] ELSE d1[k]]

\* Python truthiness of a scalar: "" , None and False are falsy
Truthy(v) == v \notin {"", NULL, "False"}

Range(s) == {s[n] : n \in DOMAIN s}

\* the lists of a list of lists, joined
RECURSIVE Flatten(_)
Flatten(ss) == IF ss = <<>> THEN <<>> ELSE Head(ss) \o Flatten(Tail(ss))

-----------------------------------------------------------------------------
(* Request documents                                                       *)
(*   top          the scalar top-level keys that are present               *)
(*                (action, pattern, pattern_version)                       *)
(*   has_metadata "metadata" in request;  metadata  its mapping            *)
(*   has_config   "config" in request;    config    its mapping            *)
(*   none         the document is an empty YAML document (None)            *)

Doc(top, has_metadata, metadata, has_config, config) ==
    [none |-> FALSE, malformed |-> FALSE, top |-> top,
     has_metadata |-> has_metadata, metadata |-> metadata,
     has_config |-> has_config, config |-> config]

NoneDoc ==
    [none |-> TRUE, malformed |-> FALSE, top |-> EmptyDict,
     has_metadata |-> FALSE, metadata |-> EmptyDict,
     has_config |-> FALSE, config |-> EmptyDict]

\* a document of the stream that the YAML parser cannot read: it has no value
MalformedDoc == [NoneDoc EXCEPT !.none = FALSE, !.malformed = TRUE]

\* request.get("metadata", {}) and request.get("config", {})
MetadataOf(request) == IF request.has_metadata THEN request.metadata ELSE EmptyDict
ConfigOf(request) == IF request.has_config THEN request.config ELSE EmptyDict

-----------------------------------------------------------------------------
(* The pattern catalog (self.patterns) as _load_metadata leaves it: one    *)
(* entry per definition file, keyed by the pattern's own name.  A key the  *)
(* definition file leaves out is read with .get(key, {}) or .get(key, [])  *)
(* everywhere, so it is modelled by the empty value.                       *)

\* One entry of config.optional: {key: spec}.  is_dict is isinstance(item, dict)
\* for the list shape; spec_is_dict is isinstance(spec, dict).
OptItem(key, spec_is_dict, spec) ==
    [is_dict |-> TRUE, key |-> key, spec_is_dict |-> spec_is_dict, spec |-> spec]

KeyvaultPattern ==
    [name |-> "keyvault",
     components |-> <<"key_vault", "diagnostics">>,
     required |-> <<"name">>,
     optional_is_list |-> TRUE,
     optional |-> << OptItem("soft_delete_days", TRUE, [type |-> "number", default |-> "90"]),
                     OptItem("access_reviewers", TRUE, [type |-> "list"]),
                     [is_dict |-> FALSE, key |-> "purge_protection",
                      spec_is_dict |-> FALSE, spec |-> EmptyDict] >>,
     sizing |-> [small  |-> [dev     |-> [sku |-> "standard"],
                             staging |-> [sku |-> "standard"],
                             prod    |-> [sku |-> "standard", enable_diagnostics |-> "False"]],
                 medium |-> [prod    |-> [sku |-> "premium", enable_access_review |-> "True"]]],
     estimated_costs |-> [small  |-> [dev |-> 5, staging |-> 5, prod |-> 10],
                          medium |-> [prod |-> 25]]]

PostgresqlPattern ==
    [name |-> "postgresql",
     components |-> <<"postgresql_server">>,
     required |-> <<"name", "version">>,
     optional_is_list |-> FALSE,
     optional |-> << OptItem("backup_retention_days", TRUE, [type |-> "number", default |-> "7"]),
                     OptItem("geo_redundant_backup", TRUE, [type |-> "boolean"]),
                     OptItem("sku", TRUE, [type |-> "string", default |-> "B_Standard_B1ms"]),
                     OptItem("owners", TRUE, [type |-> "list"]),
                     OptItem("high_availability", FALSE, EmptyDict) >>,
     sizing |-> [small  |-> [staging |-> [sku |-> "B_Standard_B2s",
                                          geo_redundant_backup |-> "True"]],
                 medium |-> [staging |-> [sku |-> "GP_Standard_D2s", storage_mb |-> "65536"]]],
     estimated_costs |-> [small |-> [dev |-> 15], medium |-> [dev |-> 0]]]

\* A definition file with no config, sizing or estimated_costs block.
StoragePattern ==
    [name |-> "storage",
     components |-> <<>>,
     required |-> <<>>,
     optional_is_list |-> FALSE,
     optional |-> <<>>,
     sizing |-> EmptyDict,
     estimated_costs |-> EmptyDict]

\* self.patterns, with list(self.patterns.keys()) in insertion order
Catalog ==
    [keys |-> <<"keyvault", "postgresql", "storage">>,
     patterns |-> [keyvault |-> KeyvaultPattern,
                   postgresql |-> PostgresqlPattern,
                   storage |-> StoragePattern]]

Catalogs == {Catalog}

(* The sizing-defaults table (self.sizing_defaults).                       *)
\* scalar common_skus entries are wrapped: is_dict is isinstance(sku_info, dict)
SkuObject(d) == [is_dict |-> TRUE, object |-> d, scalar |-> ""]
SkuScalar(v) == [is_dict |-> FALSE, object |-> EmptyDict, scalar |-> v]

FullSizingDefaults ==
    [environment_defaults |-> [dev |-> "small", staging |-> "medium", prod |-> "medium"],
     common_skus |-> [keyvault   |-> [medium |-> SkuScalar("standard")],
                      postgresql |-> [small  |-> SkuObject([sku |-> "B_Standard_B1ms",
                                                            storage_mb |-> "32768"])],
                      storage    |-> [small  |-> SkuScalar("Standard_LRS"),
                                      medium |-> SkuScalar("Standard_GRS")]],
     conditional_features |-> [enable_diagnostics   |-> [staging |-> "True", prod |-> "True"],
                               enable_access_review |-> [prod |-> "True"],
                               geo_redundant_backup |-> [dev |-> "False", prod |-> "True"]]]

\* A table that names a default size for one environment only.
PartialSizingDefaults ==
    [environment_defaults |-> [dev |-> "medium"],
     common_skus |-> [storage |-> [small |-> SkuScalar("Standard_LRS")]],
     conditional_features |-> [enable_diagnostics |-> [prod |-> "True"]]]

\* self.sizing_defaults = {} : the sizing file does not exist
NoSizingDefaults ==
    [environment_defaults |-> EmptyDict,
     common_skus |-> EmptyDict,
     conditional_features |-> EmptyDict]

SizingTables == {FullSizingDefaults, PartialSizingDefaults, NoSizingDefaults}

Implementations == {"cli", "dryrun"}

-----------------------------------------------------------------------------
(* PatternResolver.validate_request *)

Err(kind, arg) == [kind |-> kind, arg |-> arg]

\* one error per element of `fields` that is not a key of d, in list order
MissingErrors(kind, fields, d) ==
    LET missing == SelectSeq(fields, LAMBDA f : f \notin DOMAIN d)
    IN  [n \in 1..Len(missing) |-> Err(kind, missing[n])]

ValidActions == {"create", "destroy"}
ValidEnvironments == {"dev", "staging", "prod"}
RequiredMetadata == <<"project", "environment", "business_unit", "owners">>

\* the action key is read with no default
ActionErrors_ActionRequired(request) ==
    LET action == Get(request.top, "action", "")
    IN  IF action \notin ValidActions THEN <<Err("Invalid action", action)>> ELSE <<>>

\* action = request.get("action", "create"); if action not in [...]
ActionErrors(request) ==
    LET action == Get(request.top, "action", "create")
    IN  IF action \notin ValidActions THEN <<Err("Invalid action", action)>> ELSE <<>>

\* if "pattern" not in request
PatternFieldErrors(request) ==
    IF "pattern" \notin DOMAIN request.top
    THEN <<Err("Missing required field", "pattern")>> ELSE <<>>

\* the metadata checks stop at the first violation
MetadataErrors_ShortCircuit(request) ==
    IF ~request.has_metadata
    THEN <<Err("Missing required field", "metadata")>>
    ELSE LET meta == MetadataOf(request)
             env  == Get(meta, "environment", "")
             all  == MissingErrors("Missing required metadata field", RequiredMetadata, meta)
                     \o (IF env \notin ValidEnvironments
                         THEN <<Err("Invalid environment", env)>> ELSE <<>>)
         IN  IF all = <<>> THEN <<>> ELSE <<Head(all)>>

\* if "metadata" not in request: ... else: the metadata fields and the environment
MetadataErrors(request) ==
    IF ~request.has_metadata
    THEN <<Err("Missing required field", "metadata")>>
    ELSE LET meta == MetadataOf(request)
             env  == Get(meta, "environment", "")
         IN  MissingErrors("Missing required metadata field", RequiredMetadata, meta)
             \o (IF env \notin ValidEnvironments
                 THEN <<Err("Invalid environment", env)>> ELSE <<>>)

\* if pattern_name and pattern_name not in self.patterns
UnknownPatternErrors(request) ==
    LET pattern_name == Get(request.top, "pattern", "")
    IN  IF Truthy(pattern_name) /\ pattern_name \notin DOMAIN patterns
        THEN <<[kind |-> "Unknown pattern", arg |-> pattern_name,
                available |-> pattern_keys]>>
        ELSE <<>>

\* `name` is exempt from the required-field check
ConfigErrors_ExceptName(request) ==
    LET pattern_name == Get(request.top, "pattern", "")
    IN  IF pattern_name \in DOMAIN patterns
        THEN MissingErrors("Missing required config field",
                           SelectSeq(patterns[pattern_name].required,
                                     LAMBDA f : f # "name"),
                           ConfigOf(request))
        ELSE <<>>

\* if pattern_name in self.patterns: every required config field must be in config
ConfigErrors(request) ==
    LET pattern_name == Get(request.top, "pattern", "")
    IN  IF pattern_name \in DOMAIN patterns
        THEN MissingErrors("Missing required config field",
                           patterns[pattern_name].required, ConfigOf(request))
        ELSE <<>>

\* the error list is kept on the resolver and grows from call to call
ValidationErrors_Accumulating(request) ==
    Flatten([n \in DOMAIN results |-> results[n].errors])
    \o ActionErrors(request) \o PatternFieldErrors(request) \o MetadataErrors(request)
    \o UnknownPatternErrors(request) \o ConfigErrors(request)

\* errors = [] and the five checks, in this order
ValidationErrors(request) ==
    ActionErrors(request) \o PatternFieldErrors(request) \o MetadataErrors(request)
    \o UnknownPatternErrors(request) \o ConfigErrors(request)

\* only the dry-run implementation has the pattern_version check
VersionWarnings(which, request) ==
    IF which = "dryrun" /\ "pattern_version" \notin DOMAIN request.top
    THEN <<"pattern_version not specified; will use latest version">>
    ELSE <<>>

\* a request with a warning is not valid
validate_request_WarningsFail(which, request) ==
    LET errors == ValidationErrors(request)
        warnings == VersionWarnings(which, request)
    IN  [valid |-> Len(errors) = 0 /\ Len(warnings) = 0,
         errors |-> errors,
         warnings |-> warnings]

validate_request(which, request) ==
    LET errors == ValidationErrors(request)
    IN  [valid |-> Len(errors) = 0,
         errors |-> errors,
         warnings |-> VersionWarnings(which, request)]

-----------------------------------------------------------------------------
(* PatternResolver.resolve and its helpers *)

\* the table is not consulted
get_default_size_AlwaysSmall(environment) == "small"

\* defaults = self.sizing_defaults.get("environment_defaults", {})
get_default_size(environment) ==
    Get(sizing_defaults.environment_defaults, environment, "small")

\* size = config.get("size", self._get_default_size(environment))
SizeOf(config, environment) ==
    Get(config, "size", get_default_size(environment))

\* the fallback branch of _resolve_sizing: common_skus[pattern.name].get(size, {})
CommonSkuSizing(pattern, size) ==
    LET common == sizing_defaults.common_skus
    IN  IF pattern.name \in DOMAIN common
        THEN LET sku_info == Get(common[pattern.name], size, SkuObject(EmptyDict))
             IN  IF sku_info.is_dict THEN sku_info.object
                                     ELSE [sku |-> sku_info.scalar]
        ELSE EmptyDict

\* the common_skus entry is merged over the pattern's own sizing
resolve_sizing_MergesFallback(pattern, size, environment) ==
    LET sizing == pattern.sizing
    IN  IF size \in DOMAIN sizing /\ environment \in DOMAIN sizing[size]
        THEN Update(sizing[size][environment], CommonSkuSizing(pattern, size))
        ELSE CommonSkuSizing(pattern, size)

resolve_sizing(pattern, size, environment) ==
    LET sizing == pattern.sizing
    IN  IF size \in DOMAIN sizing /\ environment \in DOMAIN sizing[size]
        THEN sizing[size][environment]
        ELSE CommonSkuSizing(pattern, size)

\* the resource name falls back to the pattern's name
IdentityVars_NameFromPattern(request, pattern_name) ==
    LET metadata == request.metadata
        config   == ConfigOf(request)
    IN  [project       |-> metadata["project"],
         environment   |-> metadata["environment"],
         business_unit |-> metadata["business_unit"],
         owners        |-> metadata["owners"],
         location      |-> Get(metadata, "location", "eastus"),
         pattern_name  |-> pattern_name,
         name          |-> Get(config, "name", pattern_name)]

\* the identity fields that seed tfvars
IdentityVars(request, pattern_name) ==
    LET metadata == request.metadata
        config   == ConfigOf(request)
    IN  [project       |-> metadata["project"],
         environment   |-> metadata["environment"],
         business_unit |-> metadata["business_unit"],
         owners        |-> metadata["owners"],
         location      |-> Get(metadata, "location", "eastus"),
         pattern_name  |-> pattern_name,
         name          |-> Get(config, "name", metadata["project"])]

\* optional_config: the list shape keeps the dict items only, a later item
\* replacing an earlier one with the same key
OptionalConfig(pattern) ==
    LET raw   == pattern.optional
        kept  == IF pattern.optional_is_list
                 THEN SelectSeq(raw, LAMBDA item : item.is_dict)
                 ELSE raw
        last(k) == CHOOSE n \in DOMAIN kept :
                      /\ kept[n].key = k
                      /\ \A m \in DOMAIN kept : kept[m].key = k => m <= n
    IN  [k \in {kept[n].key : n \in DOMAIN kept} |-> kept[last(k)]]

\* a declared default is written even when the request gives the field
ApplyOptional_DefaultWins(tfvars, pattern, config) ==
    LET optional_config == OptionalConfig(pattern)
        HasDefault(k) == optional_config[k].spec_is_dict
                         /\ "default" \in DOMAIN optional_config[k].spec
        set == {k \in DOMAIN optional_config : k \in DOMAIN config \/ HasDefault(k)}
    IN  [k \in (DOMAIN tfvars) \cup set |->
            IF k \in set
            THEN (IF HasDefault(k) THEN optional_config[k].spec["default"]
                                   ELSE config[k])
            ELSE tfvars[k]]

\* every key of config is copied into the output, declared or not
ApplyOptional_CopiesAll(tfvars, pattern, config) ==
    LET optional_config == OptionalConfig(pattern)
        HasDefault(k) == optional_config[k].spec_is_dict
                         /\ "default" \in DOMAIN optional_config[k].spec
        defaults == {k \in DOMAIN optional_config : HasDefault(k)}
    IN  [k \in (DOMAIN tfvars) \cup defaults \cup (DOMAIN config \ {"name"}) |->
            IF k \in DOMAIN config \ {"name"} THEN config[k]
            ELSE IF k \in defaults THEN optional_config[k].spec["default"]
            ELSE tfvars[k]]

\* for key, spec in optional_config.items(): override, else default, else nothing
ApplyOptional(tfvars, pattern, config) ==
    LET optional_config == OptionalConfig(pattern)
        HasDefault(k) == optional_config[k].spec_is_dict
                         /\ "default" \in DOMAIN optional_config[k].spec
        set == {k \in DOMAIN optional_config : k \in DOMAIN config \/ HasDefault(k)}
    IN  [k \in (DOMAIN tfvars) \cup set |->
            IF k \in set
            THEN (IF k \in DOMAIN config THEN config[k]
                                         ELSE optional_config[k].spec["default"])
            ELSE tfvars[k]]

\* the environment's value is written over a value that is already set
apply_conditionals_Overwrites(tfvars, environment) ==
    LET conditionals == sizing_defaults.conditional_features
    IN  [k \in (DOMAIN tfvars) \cup (DOMAIN conditionals) |->
            IF k \in DOMAIN conditionals
            THEN Get(conditionals[k], environment, "False")
            ELSE tfvars[k]]

\* access review is switched on when the request names reviewers
apply_conditionals_AutoEnable(tfvars, environment) ==
    LET conditionals == sizing_defaults.conditional_features
        applied == [k \in (DOMAIN tfvars) \cup (DOMAIN conditionals) |->
                       IF k \in DOMAIN tfvars THEN tfvars[k]
                       ELSE Get(conditionals[k], environment, "False")]
    IN  IF "access_reviewers" \in DOMAIN tfvars
        THEN Update(applied, [enable_access_review |-> "True"])
        ELSE applied

\* for feature, env_values in conditionals.items(): if feature not in tfvars
apply_conditionals(tfvars, environment) ==
    LET conditionals == sizing_defaults.conditional_features
    IN  [k \in (DOMAIN tfvars) \cup (DOMAIN conditionals) |->
            IF k \in DOMAIN tfvars THEN tfvars[k]
            ELSE Get(conditionals[k], environment, "False")]

\* The outcome of a call of resolve: `raised` is "" when it returns tfvars,
\* else the exception it raises.  ValueError carries the validator's errors;
\* KeyError is self.patterns[pattern_name] on a name that is no key.
\* `size` and `sizing` are the values of the locals of those names.
Returned(tfvars, size, sizing) ==
    [raised |-> "", errors |-> <<>>, tfvars |-> tfvars,
     size |-> size, sizing |-> sizing]
Raised(exception, errors) ==
    [raised |-> exception, errors |-> errors, tfvars |-> EmptyDict,
     size |-> "", sizing |-> EmptyDict]

\* the ValueError carries the first violation only
resolve_FirstErrorOnly(which, request) ==
    LET validation == validate_request(which, request)
    IN  IF ~validation.valid
        THEN Raised("ValueError", <<Head(validation.errors)>>)
        ELSE IF request.top["pattern"] \notin DOMAIN patterns
        THEN Raised("KeyError", <<>>)
        ELSE Returned(IdentityVars(request, request.top["pattern"]), "", EmptyDict)

\* the sizing set is merged after the optional config, not before
resolve_SizingLast(which, request) ==
    LET validation == validate_request(which, request)
    IN  IF ~validation.valid
        THEN Raised("ValueError", validation.errors)
        ELSE LET pattern_name == request.top["pattern"]
             IN  IF pattern_name \notin DOMAIN patterns
                 THEN Raised("KeyError", <<>>)
                 ELSE LET pattern     == patterns[pattern_name]
                          config      == ConfigOf(request)
                          environment == request.metadata["environment"]
                          size        == SizeOf(config, environment)
                          sizing      == resolve_sizing(pattern, size, environment)
                          seeded      == IdentityVars(request, pattern_name)
                          layered     == ApplyOptional(seeded, pattern, config)
                          sized       == Update(layered, sizing)
                      IN  Returned(apply_conditionals(sized, environment),
                                   size, sizing)

resolve(which, request) ==
    LET validation == validate_request(which, request)
    IN  IF ~validation.valid
        THEN Raised("ValueError", validation.errors)
        ELSE LET pattern_name == request.top["pattern"]
             IN  IF pattern_name \notin DOMAIN patterns
                 THEN Raised("KeyError", <<>>)
                 ELSE LET pattern     == patterns[pattern_name]
                          config      == ConfigOf(request)
                          environment == request.metadata["environment"]
                          size        == SizeOf(config, environment)
                          sizing      == resolve_sizing(pattern, size, environment)
                          seeded      == IdentityVars(request, pattern_name)
                          sized       == Update(seeded, sizing)
                          layered     == ApplyOptional(sized, pattern, config)
                      IN  Returned(apply_conditionals(layered, environment),
                                   size, sizing)

\* get_cost_estimate: the two implementations differ in the miss value
get_cost_estimate(which, request) ==
    LET pattern_name == Get(request.top, "pattern", "")
    IN  IF pattern_name \notin DOMAIN patterns
        THEN [error |-> "Unknown pattern", pattern |-> pattern_name]
        ELSE LET pattern     == patterns[pattern_name]
                 config      == ConfigOf(request)
                 environment == Get(MetadataOf(request), "environment", "dev")
                 size        == SizeOf(config, environment)
                 costs       == pattern.estimated_costs
             IN  IF size \in DOMAIN costs /\ environment \in DOMAIN costs[size]
                 THEN [pattern |-> pattern_name, size |-> size,
                       environment |-> environment,
                       estimated_monthly_cost_usd |-> Some(costs[size][environment])]
                 ELSE IF which = "cli"
                      THEN [error |-> "Cost estimate not available"]
                      ELSE [estimated_monthly_cost_usd |-> NoneValue]

-----------------------------------------------------------------------------
(* PatternResolver.resolve_all, one document at a time *)

\* How a string is spelled, separator by separator, for the f-strings that
\* join several values; a string with no entry is a single token.
Spelling ==
    ("my-app" :> <<"my", "-", "app">>)
    @@ ("my-app/keyvault-core" :> <<"my", "-", "app", "/", "keyvault", "-", "core">>)
    @@ ("core/keyvault-secrets" :> <<"core", "/", "keyvault", "-", "secrets">>)
Chars(v) == IF v \in DOMAIN Spelling THEN Spelling[v] ELSE <<v>>

\* f"{business_unit}/{environment}/{project}/{pattern_name}-{name}/terraform.tfstate"
compute_state_key(request) ==
    LET metadata      == MetadataOf(request)
        pattern_name  == Get(request.top, "pattern", "unknown")
        config        == ConfigOf(request)
        business_unit == Get(metadata, "business_unit", "default")
        environment   == Get(metadata, "environment", "dev")
        project       == Get(metadata, "project", "unknown")
        name          == Get(config, "name", pattern_name)
    IN  Chars(business_unit) \o <<"/">> \o Chars(environment) \o <<"/">>
        \o Chars(project) \o <<"/">> \o Chars(pattern_name) \o <<"-">>
        \o Chars(name) \o <<"/", "terraform.tfstate">>

\* f"rg-{project}-{pattern_name}-{environment}"
compute_resource_group(request) ==
    LET metadata     == MetadataOf(request)
        pattern_name == Get(request.top, "pattern", "unknown")
        project      == Get(metadata, "project", "unknown")
        environment  == Get(metadata, "environment", "dev")
    IN  <<"rg", "-">> \o Chars(project) \o <<"-">> \o Chars(pattern_name)
        \o <<"-">> \o Chars(environment)

\* the env_features list of the dry-run resolve_all
EnvironmentFeatures(tfvars) ==
    (IF Truthy(Get(tfvars, "enable_diagnostics", NULL)) THEN <<"diagnostics">> ELSE <<>>)
    \o (IF Truthy(Get(tfvars, "enable_access_review", NULL)) THEN <<"access_review">> ELSE <<>>)
    \o (IF Truthy(Get(tfvars, "geo_redundant_backup", NULL))
        THEN <<"geo_redundant_backup">> ELSE <<>>)

\* The result the loop body appends for document `doc` at Python index `index`
\* when it raises nothing: the invalid branch, the try branch, or the
\* except ValueError branch.
CliResult(index, doc) ==
    LET action       == Get(doc.top, "action", "create")
        pattern_name == Get(doc.top, "pattern", "unknown")
        validation   == validate_request("cli", doc)
        resolved     == resolve("cli", doc)
        base         == [index |-> index, action |-> action, pattern |-> pattern_name]
    IN  IF ~validation.valid
        THEN base @@ [valid |-> FALSE, errors |-> validation.errors,
                      tfvars |-> NoneValue, state_key |-> NoneValue]
        ELSE IF resolved.raised = ""
        THEN base @@ [valid |-> TRUE, errors |-> <<>>,
                      tfvars |-> Some(resolved.tfvars),
                      state_key |-> Some(compute_state_key(doc))]
        ELSE base @@ [valid |-> FALSE,
                      errors |-> <<[kind |-> "Invalid request", errors |-> resolved.errors]>>,
                      tfvars |-> NoneValue, state_key |-> NoneValue]

DryRunResult(index, doc) ==
    LET action       == Get(doc.top, "action", "create")
        pattern_name == Get(doc.top, "pattern", "unknown")
        validation   == validate_request("dryrun", doc)
        resolved     == resolve("dryrun", doc)
        cost         == get_cost_estimate("dryrun", doc)
        base         == [index |-> index, action |-> action, pattern |-> pattern_name]
    IN  IF ~validation.valid
        THEN base @@ [valid |-> FALSE, errors |-> validation.errors,
                      warnings |-> validation.warnings,
                      tfvars |-> NoneValue, cost_estimate |-> NoneValue,
                      pattern_info |-> NoneValue, resource_group |-> NoneValue]
        ELSE IF resolved.raised = ""
        THEN base @@ [valid |-> TRUE, errors |-> <<>>,
                      warnings |-> validation.warnings,
                      components |-> IF pattern_name \in DOMAIN patterns
                                     THEN patterns[pattern_name].components ELSE <<>>,
                      environment_features |-> EnvironmentFeatures(resolved.tfvars),
                      resource_group |-> Some(compute_resource_group(doc)),
                      estimated_cost_usd |-> Get(cost, "estimated_monthly_cost_usd", NoneValue),
                      tfvars |-> Some(resolved.tfvars)]
        ELSE base @@ [valid |-> FALSE,
                      errors |-> <<[kind |-> "Invalid request", errors |-> resolved.errors]>>,
                      warnings |-> <<>>,
                      tfvars |-> NoneValue, cost_estimate |-> NoneValue,
                      resource_group |-> NoneValue]

DocumentResult(which, index, doc) ==
    IF which = "cli" THEN CliResult(index, doc) ELSE DryRunResult(index, doc)

\* The loop body lets an exception escape when the document passes validation
\* and resolve raises something that is no ValueError.
Escapes(which, doc) ==
    /\ validate_request(which, doc).valid
    /\ resolve(which, doc).raised \notin {"", "ValueError"}

-----------------------------------------------------------------------------
(* PatternResolver.compute_execution_order *)

ValidIndices(rs, is_destroy) ==
    LET kept == SelectSeq(rs, LAMBDA r : r.valid /\ ((r.action = "destroy") = is_destroy))
    IN  [n \in 1..Len(kept) |-> kept[n].index]

\* the two lists joined the other way round
compute_execution_order_CreatesFirst(rs) ==
    ValidIndices(rs, FALSE) \o ValidIndices(rs, TRUE)

compute_execution_order(rs) ==
    ValidIndices(rs, TRUE) \o ValidIndices(rs, FALSE)

-----------------------------------------------------------------------------
(* The request documents the operations are given *)

Restrict(d, keys) == [k \in keys |-> d[k]]

\* a key that is absent, or present with one of the values
OptKey(k, vals) == {EmptyDict} \cup {(k :> v) : v \in vals}

FullMeta(env) ==
    [project |-> "my-app", environment |-> env,
     business_unit |-> "eng", owners |-> <<"a@co.com">>]

MetaVariants ==
    {FullMeta(env) : env \in {"dev", "staging", "prod", "qa"}}
    \cup {FullMeta(env) @@ [location |-> "westus"] : env \in {"dev", "prod"}}
    \cup {Restrict(FullMeta("dev"), {"environment", "business_unit", "owners"}),
          Restrict(FullMeta("dev"), {"project", "business_unit", "owners"}),
          Restrict(FullMeta("prod"), {"project", "environment"}),
          EmptyDict}

OverrideVariants ==
    {EmptyDict, [soft_delete_days |-> "30"], [sku |-> "custom"],
     [access_reviewers |-> <<"r@co.com">>], [owners |-> <<"dba@co.com">>]}

ConfigVariants ==
    {a @@ b @@ c @@ d : a \in OptKey("name", {"secrets"}),
                        b \in OptKey("size", {"small", "medium", "xl"}),
                        c \in OptKey("version", {"14"}),
                        d \in OverrideVariants}

TopVariants ==
    {a @@ b @@ c :
        a \in OptKey("action", {"create", "destroy", "delete"}),
        b \in OptKey("pattern", {"", NULL, "keyvault", "postgresql", "storage",
                                 "does-not-exist"}),
        c \in OptKey("pattern_version", {"1.0.0"})}

\* documents that exercise the validator: any top level and metadata
ValidationDocs ==
    {Doc(t, TRUE, m, TRUE, c) :
        t \in TopVariants, m \in MetaVariants,
        c \in {EmptyDict, [name |-> "secrets"], [name |-> "db", version |-> "14"]}}
    \cup {Doc(t, FALSE, EmptyDict, FALSE, EmptyDict) : t \in TopVariants}

\* documents that exercise the resolver: well-formed top level and metadata,
\* any config
ResolutionDocs ==
    {Doc(a @@ ("pattern" :> p), TRUE, m, TRUE, c) :
        a \in OptKey("action", {"destroy"}),
        p \in {"keyvault", "postgresql", "storage"},
        m \in {FullMeta("dev"), FullMeta("staging"), FullMeta("prod"),
               FullMeta("staging") @@ [location |-> "westus"]},
        c \in ConfigVariants}
    \cup {Doc(("pattern" :> p), TRUE, FullMeta(env), FALSE, EmptyDict) :
            p \in {"keyvault", "storage"}, env \in {"dev", "staging", "prod"}}

DocSpace == ValidationDocs \cup ResolutionDocs

\* the documents of multi-document submissions
CreateDoc ==
    Doc([action |-> "create", pattern |-> "keyvault", pattern_version |-> "1.0.0"],
        TRUE, FullMeta("dev"), TRUE,
        [name |-> "secrets", access_reviewers |-> <<"r@co.com">>])
DefaultActionDoc ==
    Doc([pattern |-> "storage"], TRUE, FullMeta("prod"), FALSE, EmptyDict)
DestroyDoc ==
    Doc([action |-> "destroy", pattern |-> "postgresql"],
        TRUE, FullMeta("staging"), TRUE, [name |-> "db", version |-> "14"])
InvalidDestroyDoc ==
    Doc([action |-> "destroy", pattern |-> "does-not-exist"],
        TRUE, FullMeta("dev"), TRUE, [name |-> "old"])
InvalidActionDoc ==
    Doc([action |-> "delete", pattern |-> "keyvault"],
        TRUE, FullMeta("dev"), TRUE, [name |-> "secrets"])
EmptyPatternDoc ==
    Doc([action |-> "create", pattern |-> ""],
        TRUE, FullMeta("dev"), TRUE, [name |-> "secrets"])

\* two keyvault requests of one business unit and environment whose project
\* and name hold a "/"
SlashNameDoc ==
    Doc([action |-> "create", pattern |-> "keyvault"],
        TRUE, FullMeta("dev"), TRUE, [name |-> "core/keyvault-secrets"])
SlashProjectDoc ==
    Doc([action |-> "create", pattern |-> "keyvault"],
        TRUE, [FullMeta("dev") EXCEPT !.project = "my-app/keyvault-core"],
        TRUE, [name |-> "secrets"])

BatchPool ==
    {NoneDoc, CreateDoc, DefaultActionDoc, DestroyDoc, InvalidDestroyDoc,
     InvalidActionDoc, EmptyPatternDoc}

Batches ==
    UNION {[1..n -> BatchPool] : n \in 1..MaxDocs}
    \cup [1..2 -> {SlashNameDoc, SlashProjectDoc}]
    \cup UNION {[1..n -> {MalformedDoc, NoneDoc, CreateDoc}] : n \in 1..3}

-----------------------------------------------------------------------------
(* main: the batch output of the CLI script (multi-document mode) and the   *)
(* HTTP response of the dry-run function                                   *)

RECURSIVE Sum(_)
Sum(ns) == IF ns = <<>> THEN 0 ELSE Head(ns) + Sum(Tail(ns))

\* all(r.get("valid", False) for r in results)
AllValid(rs) == \A n \in DOMAIN rs : rs[n].valid

\* the sum without its `r.get("valid")` test
CountValid_AnyValidity(rs, action) ==
    Len(SelectSeq(rs, LAMBDA r : r.action = action))

\* sum(1 for r in results if r.get("valid") and r.get("action") == action)
CountValid(rs, action) ==
    Len(SelectSeq(rs, LAMBDA r : r.valid /\ r.action = action))

\* the multi-json output of the script, without --validate and --cost
CliOutput(docs, rs, order) ==
    [exit_code |-> IF AllValid(rs) THEN 0 ELSE 1,
     output |-> [document_count  |-> Len(docs),
                 all_valid       |-> AllValid(rs),
                 execution_order |-> order,
                 patterns        |-> rs,
                 create_count    |-> CountValid(rs, "create"),
                 destroy_count   |-> CountValid(rs, "destroy")]]

\* if args.validate: the results cut down to index, action, pattern, valid, errors
CliValidateOutput(docs, rs, order) ==
    [exit_code |-> IF AllValid(rs) THEN 0 ELSE 1,
     output |-> [document_count  |-> Len(docs),
                 all_valid       |-> AllValid(rs),
                 validations     |-> [n \in 1..Len(rs) |->
                                         [index |-> rs[n].index, action |-> rs[n].action,
                                          pattern |-> rs[n].pattern, valid |-> rs[n].valid,
                                          errors |-> rs[n].errors]],
                 execution_order |-> order,
                 create_count    |-> CountValid(rs, "create"),
                 destroy_count   |-> CountValid(rs, "destroy")]]

\* if args.cost: one cost estimate per document, and return 0
CliCostOutput(docs) ==
    [exit_code |-> 0,
     output |-> [n \in 1..Len(docs) |->
                    Update(get_cost_estimate("cli", docs[n]),
                           [action |-> Get(docs[n].top, "action", "create")])]]

\* the command-line flags that select what the script prints
Modes == {"resolve", "validate", "cost"}

\* the multi-document branch of the script's main, after resolve_all
CliMain(mode, docs, rs, order) ==
    [mode |-> mode]
    @@ (IF mode = "validate" THEN CliValidateOutput(docs, rs, order)
        ELSE IF mode = "cost" THEN CliCostOutput(docs)
        ELSE CliOutput(docs, rs, order))

\* the per-document entry of the response: tfvars are left out
DryRunDocument(r) ==
    LET doc == [index |-> r.index, pattern |-> r.pattern, action |-> r.action,
                valid |-> r.valid, errors |-> r.errors, warnings |-> r.warnings]
    IN  IF r.valid
        THEN doc @@ [components |-> r.components,
                     estimated_cost_usd |-> r.estimated_cost_usd,
                     resource_group |-> r.resource_group,
                     environment_features |-> r.environment_features]
        ELSE doc

DryRunResponse(docs, rs, order) ==
    LET costly == SelectSeq(rs, LAMBDA r : r.valid /\ r.estimated_cost_usd # NoneValue
                                           /\ r.estimated_cost_usd[1] # 0)
        total_cost == Sum([n \in 1..Len(costly) |-> costly[n].estimated_cost_usd[1]])
        all_errors == Flatten([n \in 1..Len(rs) |->
                         [m \in 1..Len(rs[n].errors) |->
                             [document |-> rs[n].index, error |-> rs[n].errors[m]]]])
    IN  [status_code |-> IF AllValid(rs) THEN 200 ELSE 400,
         body |-> [valid           |-> AllValid(rs),
                   document_count  |-> Len(docs),
                   documents       |-> [n \in 1..Len(rs) |-> DryRunDocument(rs[n])],
                   total_monthly_cost_usd |-> IF total_cost > 0 THEN Some(total_cost)
                                                                ELSE NoneValue,
                   execution_order |-> order,
                   create_count    |-> CountValid(rs, "create"),
                   destroy_count   |-> CountValid(rs, "destroy")]
                  @@ (IF all_errors # <<>> THEN [errors |-> all_errors] ELSE EmptyDict)]

\* no document is left after the empty ones are dropped
NoDocumentsResponse(which) ==
    IF which = "cli"
    THEN [exit_code |-> 1, error |-> "No valid documents found in YAML file"]
    ELSE [status_code |-> 400, error |-> "No valid documents found in YAML"]

\* list(yaml.safe_load_all(...)) raises yaml.YAMLError at the first document
\* it cannot parse and no list is built: the script does not catch it and
\* dies with a traceback, the function answers 400 for the body
MalformedResponse(which) ==
    IF which = "cli"
    THEN [exit_code |-> 1, traceback |-> "YAMLError"]
    ELSE [status_code |-> 400, error |-> "Invalid YAML"]

\* an exception escapes resolve_all: the script dies with a traceback, the
\* function's except Exception answers 500
EscapedResponse(which) ==
    IF which = "cli"
    THEN [exit_code |-> 1, traceback |-> "KeyError"]
    ELSE [status_code |-> 500, error |-> "Pattern resolution failed"]

-----------------------------------------------------------------------------
(* What a call leaves behind in the objects it was given *)

\* _resolve_sizing returns the catalog's own sizing entry and resolve builds
\* tfvars in it: the entry ends up holding the whole output
left_by_SharedEntry(op, request) ==
    LET unchanged == [patterns |-> patterns, pattern_keys |-> pattern_keys,
                      sizing_defaults |-> sizing_defaults, request |-> request]
        outcome   == resolve(impl, request)
        name      == request.top["pattern"]
        env       == request.metadata["environment"]
    IN  IF op = "resolve" /\ outcome.raised = ""
           /\ outcome.size \in DOMAIN patterns[name].sizing
           /\ env \in DOMAIN patterns[name].sizing[outcome.size]
        THEN [unchanged EXCEPT
                 !.patterns[name].sizing[outcome.size][env] = outcome.tfvars]
        ELSE unchanged

\* self.patterns, their key order, self.sizing_defaults and the request as a
\* call of method `op` leaves them.  No method assigns to them or to an object
\* reached from them: validate_request, get_cost_estimate, _compute_state_key
\* and compute_execution_order read only and write to lists and dicts they
\* made themselves (errors, warnings, the returned dicts, the two index lists);
\* resolve writes to tfvars, a dict literal of its own, and _resolve_sizing
\* gives it sizing[size][environment].copy() or the new dict `result`;
\* _apply_conditionals writes to the tfvars it is handed.
left_by(op, request) ==
    [patterns |-> patterns, pattern_keys |-> pattern_keys,
     sizing_defaults |-> sizing_defaults, request |-> request]

\* the resolver's tables after the call
Leaves(op, request) ==
    /\ patterns' = left_by(op, request).patterns
    /\ pattern_keys' = left_by(op, request).pattern_keys
    /\ sizing_defaults' = left_by(op, request).sizing_defaults

-----------------------------------------------------------------------------
(* The state machine *)

NoCall == [op |-> "none"]
NoResponse == [none |-> TRUE]

Init ==
    /\ impl \in Implementations
    /\ \E catalog \in Catalogs :
          /\ patterns = catalog.patterns
          /\ pattern_keys = catalog.keys
    /\ sizing_defaults \in SizingTables
    /\ pc = "idle"
    /\ call = NoCall
    /\ submitted = <<>>
    /\ documents = <<>>
    /\ i = 0
    /\ results = <<>>
    /\ execution_order = <<>>
    /\ response = NoResponse
    /\ files = [sizing |-> sizing_defaults, keys |-> pattern_keys,
                patterns |-> patterns]
    /\ resolver = 0
    /\ instances = <<>>
    /\ callers = <<>>

\* a caller (the script's single-document --validate mode) validates one document
ValidateRequest ==
    /\ pc = "idle"
    /\ \E request \in DocSpace :
          /\ call' = [op |-> "validate_request", request |-> request,
                      outcome |-> validate_request(impl, request),
                      left |-> left_by("validate_request", request).request]
          /\ Leaves("validate_request", request)
    /\ pc' = "returned"
    /\ UNCHANGED <<files, resolver, instances, callers, impl, submitted, documents, i, results, execution_order, response>>

\* a caller (the script's single-document resolve mode) resolves one document
Resolve ==
    /\ pc = "idle"
    /\ \E request \in DocSpace :
          /\ call' = [op |-> "resolve", request |-> request,
                      outcome |-> resolve(impl, request),
                      left |-> left_by("resolve", request).request]
          /\ Leaves("resolve", request)
    /\ pc' = "returned"
    /\ UNCHANGED <<files, resolver, instances, callers, impl, submitted, documents, i, results, execution_order, response>>

\* a caller (the script's single-document --cost mode) asks for one estimate
GetCostEstimate ==
    /\ pc = "idle"
    /\ \E request \in DocSpace :
          /\ call' = [op |-> "get_cost_estimate", request |-> request,
                      outcome |-> get_cost_estimate(impl, request),
                      left |-> left_by("get_cost_estimate", request).request]
          /\ Leaves("get_cost_estimate", request)
    /\ pc' = "returned"
    /\ UNCHANGED <<files, resolver, instances, callers, impl, submitted, documents, i, results, execution_order, response>>

\* main receives a submission, drops its empty documents and enters resolve_all
MainLoad ==
    /\ pc = "idle"
    /\ \E batch \in Batches :
          /\ submitted' = batch
          /\ documents' = IF \E n \in DOMAIN batch : batch[n].malformed
                          THEN <<>>
                          ELSE SelectSeq(batch, LAMBDA d : ~d.none)
    /\ call' = NoCall
    /\ i' = 0
    /\ results' = <<>>
    /\ IF \E n \in DOMAIN submitted' : submitted'[n].malformed
       THEN /\ pc' = IF impl = "cli" THEN "crashed" ELSE "done"
            /\ response' = MalformedResponse(impl)
       ELSE IF documents' = <<>>
       THEN pc' = "done" /\ response' = NoDocumentsResponse(impl)
       ELSE pc' = "resolve_all" /\ response' = response
    /\ UNCHANGED <<files, resolver, instances, callers, impl, patterns, pattern_keys, sizing_defaults, execution_order>>

\* one iteration of the loop of resolve_all, on documents[i] (Python index i)
ResolveAllStep ==
    /\ pc = "resolve_all"
    /\ i < Len(documents)
    /\ LET doc == documents[i + 1]
       IN  IF doc.none
           THEN /\ i' = i + 1
                /\ UNCHANGED <<pc, results, response, documents,
                               patterns, pattern_keys, sizing_defaults>>
           ELSE /\ Leaves("resolve", doc)
                /\ documents' = [documents EXCEPT ![i + 1] = left_by("resolve", doc).request]
                /\ IF Escapes(impl, doc)
                   THEN /\ pc' = IF impl = "cli" THEN "crashed" ELSE "done"
                        /\ response' = EscapedResponse(impl)
                        /\ UNCHANGED <<i, results>>
                   ELSE /\ results' = Append(results, DocumentResult(impl, i, doc))
                        /\ i' = i + 1
                        /\ UNCHANGED <<pc, response>>
    /\ UNCHANGED <<files, resolver, instances, callers, impl, call, submitted, execution_order>>

\* resolve_all returns and main computes the execution order
ComputeExecutionOrder ==
    /\ pc = "resolve_all"
    /\ i = Len(documents)
    /\ execution_order' = compute_execution_order(results)
    /\ Leaves("compute_execution_order", NoneDoc)
    /\ pc' = "respond"
    /\ UNCHANGED <<files, resolver, instances, callers, impl, call, submitted, documents, i, results, response>>

\* main builds the batch output; the script does it as its flags say
Respond ==
    /\ pc = "respond"
    /\ IF impl = "cli"
       THEN \E mode \in Modes :
               response' = CliMain(mode, documents, results, execution_order)
       ELSE response' = DryRunResponse(documents, results, execution_order)
    /\ pc' = "done"
    /\ UNCHANGED <<files, resolver, instances, callers, impl, patterns, pattern_keys, sizing_defaults, call, submitted,
                   documents, i, results, execution_order>>

Next ==
    \/ ValidateRequest
    \/ Resolve
    \/ GetCostEstimate
    \/ MainLoad
    \/ ResolveAllStep
    \/ ComputeExecutionOrder
    \/ Respond

Spec == Init /\ [][Next]_vars

-----------------------------------------------------------------------------
(* The function app under concurrent requests                              *)
(*                                                                         *)
(* The worker runs main on a pool of threads; the threads share the module *)
(* global `resolver`.  Each step below is one the interpreter can switch   *)
(* threads after: the test of the global, each file the constructor loads, *)
(* the assignment to the global, the read of the global for the return.    *)
(* resolve_all and the response run as one step: they read the instance    *)
(* and the caller's own documents only.  patterns, pattern_keys and        *)
(* sizing_defaults are `self` of the method that runs or ran last.         *)

Callers == 1..MaxCallers

\* what the callers post
Bodies == {<<DestroyDoc, CreateDoc>>, <<InvalidActionDoc, DefaultActionDoc>>}

\* PatternResolver.__init__ before _load_metadata
NewInstance ==
    [patterns |-> EmptyDict, pattern_keys |-> <<>>,
     sizing_defaults |-> NoSizingDefaults, sizing_loaded |-> FALSE, loaded |-> 0]

IsLoaded(instance) ==
    /\ instance.sizing_loaded
    /\ instance.sizing_defaults = files.sizing
    /\ instance.pattern_keys = files.keys
    /\ instance.patterns = files.patterns

\* the global is bound to the new object before its constructor has run
construct_PublishFirst(c) ==
    [resolver |-> c, instances |-> (c :> NewInstance) @@ instances]

\* `resolver = PatternResolver()` up to the call of _load_metadata: the new
\* object is the caller's own, the global is bound only when the
\* constructor has returned
construct(c) ==
    [resolver |-> resolver, instances |-> (c :> NewInstance) @@ instances]

\* main from the resolve_all call to the response, on the documents of one body
handle(which, docs) ==
    IF \E n \in 1..Len(docs) : Escapes(which, docs[n])
    THEN EscapedResponse(which)
    ELSE LET rs == [n \in 1..Len(docs) |-> DocumentResult(which, n - 1, docs[n])]
         IN  DryRunResponse(docs, rs, compute_execution_order(rs))

seq_vars == <<impl, pc, call, submitted, documents, i, results, execution_order,
              response, files>>

self_vars == <<patterns, pattern_keys, sizing_defaults>>

ConcInit ==
    /\ Init
    /\ impl = "dryrun"

\* a request arrives and main has parsed its body
Arrive(c) ==
    /\ c \notin DOMAIN callers
    /\ \E body \in Bodies :
          callers' = (c :> [pc |-> "get_resolver", body |-> body, self |-> 0,
                            response |-> NoResponse]) @@ callers
    /\ UNCHANGED <<seq_vars, self_vars, resolver, instances>>

\* get_resolver: `if resolver is None`
TestGlobal(c) ==
    /\ c \in DOMAIN callers
    /\ callers[c].pc = "get_resolver"
    /\ IF resolver = 0
       THEN /\ resolver' = construct(c).resolver
            /\ instances' = construct(c).instances
            /\ callers' = [callers EXCEPT ![c].pc = "load_sizing"]
       ELSE /\ callers' = [callers EXCEPT ![c].pc = "return"]
            /\ UNCHANGED <<resolver, instances>>
    /\ UNCHANGED <<seq_vars, self_vars>>

\* _load_metadata: the sizing file
LoadSizing(c) ==
    /\ c \in DOMAIN callers
    /\ callers[c].pc = "load_sizing"
    /\ instances' = [instances EXCEPT ![c].sizing_defaults = files.sizing,
                                      ![c].sizing_loaded = TRUE]
    /\ callers' = [callers EXCEPT ![c].pc = "load_patterns"]
    /\ UNCHANGED <<seq_vars, self_vars, resolver>>

\* _load_metadata: one pattern file
LoadPattern(c) ==
    /\ c \in DOMAIN callers
    /\ callers[c].pc = "load_patterns"
    /\ instances[c].loaded < Len(files.keys)
    /\ LET name == files.keys[instances[c].loaded + 1]
       IN  instances' = [instances EXCEPT
              ![c].patterns = Update(@, name :> files.patterns[name]),
              ![c].pattern_keys = Append(@, name),
              ![c].loaded = @ + 1]
    /\ UNCHANGED <<seq_vars, self_vars, resolver, callers>>

\* the constructor returns and the global is assigned
AssignGlobal(c) ==
    /\ c \in DOMAIN callers
    /\ callers[c].pc = "load_patterns"
    /\ instances[c].loaded = Len(files.keys)
    /\ resolver' = c
    /\ callers' = [callers EXCEPT ![c].pc = "return"]
    /\ UNCHANGED <<seq_vars, self_vars, instances>>

\* `return resolver`: the global is read again
ReturnGlobal(c) ==
    /\ c \in DOMAIN callers
    /\ callers[c].pc = "return"
    /\ callers' = [callers EXCEPT ![c].pc = "resolve_all", ![c].self = resolver]
    /\ UNCHANGED <<seq_vars, self_vars, resolver, instances>>

\* res.resolve_all is entered: `self` is the instance get_resolver returned.
\* The methods of two callers are not interleaved with each other (they
\* read the instance only); the other callers' steps of get_resolver are.
Enter(c) ==
    /\ c \in DOMAIN callers
    /\ callers[c].pc = "resolve_all"
    /\ \A d \in DOMAIN callers : callers[d].pc # "handling"
    /\ patterns' = instances[callers[c].self].patterns
    /\ pattern_keys' = instances[callers[c].self].pattern_keys
    /\ sizing_defaults' = instances[callers[c].self].sizing_defaults
    /\ callers' = [callers EXCEPT ![c].pc = "handling"]
    /\ UNCHANGED <<seq_vars, resolver, instances>>

\* res.resolve_all, res.compute_execution_order and the response
Handle(c) ==
    /\ c \in DOMAIN callers
    /\ callers[c].pc = "handling"
    /\ callers' = [callers EXCEPT ![c].pc = "done",
                                  ![c].response = handle("dryrun", callers[c].body)]
    /\ UNCHANGED <<seq_vars, self_vars, resolver, instances>>

ConcNext ==
    \/ \E c \in Callers : Arrive(c)
    \/ \E c \in Callers : TestGlobal(c)
    \/ \E c \in Callers : LoadSizing(c)
    \/ \E c \in Callers : LoadPattern(c)
    \/ \E c \in Callers : AssignGlobal(c)
    \/ \E c \in Callers : ReturnGlobal(c)
    \/ \E c \in Callers : Enter(c)
    \/ \E c \in Callers : Handle(c)

ConcSpec == ConcInit /\ [][ConcNext]_vars

-----------------------------------------------------------------------------
(* Properties *)

\* main has run resolve_all to its end on a submission with documents
BatchResolved ==
    /\ pc \in {"respond", "done"}
    /\ documents # <<>>
    /\ i = Len(documents)

\* the batch aggregate has been built (the script's --cost mode prints a list
\* of estimates instead)
BatchAnswered ==
    /\ BatchResolved
    /\ pc = "done"
    /\ impl = "cli" => response.mode # "cost"

BatchOutput == IF impl = "cli" THEN response.output ELSE response.body

\* position in `results` of the result that carries index idx
ResultAt(idx) == CHOOSE n \in DOMAIN results : results[n].index = idx

\* C1: the execution order holds exactly the indices of the valid results,
\* each once; every valid destroy comes before every valid create, and two
\* results of the same action keep their relative order in the result list.
C1_ExecutionOrder ==
    BatchResolved =>
        LET order == execution_order
            valid == {n \in DOMAIN results : results[n].valid}
        IN  /\ Range(order) = {results[n].index : n \in valid}
            /\ Len(order) = Cardinality(valid)
            /\ \A n \in valid : results[n].action \in {"create", "destroy"}
            /\ \A a, b \in DOMAIN order :
                  a < b =>
                     LET ra == results[ResultAt(order[a])]
                         rb == results[ResultAt(order[b])]
                     IN  \/ ra.action = "destroy" /\ rb.action = "create"
                         \/ ra.action = rb.action
                            /\ ResultAt(order[a]) < ResultAt(order[b])

\* the spec's example: create-valid, destroy-valid, create-valid, destroy-invalid
C1_Witness ==
    /\ BatchResolved
    /\ Len(results) = 4
    /\ [n \in 1..4 |-> <<results[n].index, results[n].action, results[n].valid>>]
         = << <<0, "create", TRUE>>, <<1, "destroy", TRUE>>,
              <<2, "create", TRUE>>, <<3, "destroy", FALSE>> >>
    /\ execution_order = <<1, 0, 2>>

\* C2: resolve_all returns one result per document of the batch, and no
\* document makes an exception escape from the batch.
C2_BatchIsolation ==
    (pc \in {"done", "crashed"} /\ documents # <<>>) =>
        /\ pc # "crashed"
        /\ Len(results) = Len(documents)

\* C3: resolve returns tfvars only for a document the validator accepts; for a
\* document with a validation error it raises the validation error with all the
\* validator's errors and no tfvars, and the document's result in a batch is
\* invalid with tfvars None.
C3_NoResolutionOfInvalid ==
    /\ call.op = "resolve" =>
          LET validation == validate_request(impl, call.request)
          IN  /\ call.outcome.raised = "" => validation.valid
              /\ ~validation.valid =>
                    /\ call.outcome.raised = "ValueError"
                    /\ call.outcome.errors = validation.errors
                    /\ call.outcome.tfvars = EmptyDict
    /\ \A n \in DOMAIN results :
          ~validate_request(impl, documents[n]).valid =>
              /\ ~results[n].valid
              /\ results[n].tfvars = NoneValue
              /\ results[n].errors = validate_request(impl, documents[n]).errors

\* resolve has been called on a document with several violations
C3_Witness ==
    /\ call.op = "resolve"
    /\ call.outcome.raised = "ValueError"
    /\ Len(call.outcome.errors) >= 3

\* C4: a document whose pattern value is no catalog name is invalid, with an
\* unknown-pattern error that names the value and lists the catalog's names.
HasUnknownPatternError(errors, value) ==
    \E n \in DOMAIN errors :
        /\ errors[n].kind = "Unknown pattern"
        /\ errors[n].arg = value
        /\ errors[n].available = pattern_keys

C4_UnknownPatternRejected ==
    /\ (call.op = "validate_request" /\ "pattern" \in DOMAIN call.request.top
        /\ call.request.top["pattern"] \notin DOMAIN patterns) =>
          /\ ~call.outcome.valid
          /\ HasUnknownPatternError(call.outcome.errors, call.request.top["pattern"])
    /\ (call.op = "resolve" /\ "pattern" \in DOMAIN call.request.top
        /\ call.request.top["pattern"] \notin DOMAIN patterns) =>
          call.outcome.raised = "ValueError"

\* number of errors of the list with this kind and argument
CountErrors(errors, kind, arg) ==
    Cardinality({n \in DOMAIN errors : errors[n].kind = kind /\ errors[n].arg = arg})

CountKind(errors, kind) ==
    Cardinality({n \in DOMAIN errors : errors[n].kind = kind})

Bit(b) == IF b THEN 1 ELSE 0

ValidateCalled == call.op = "validate_request"
ResolveCalled == call.op = "resolve"

KnownPatternRequest(request) ==
    /\ "pattern" \in DOMAIN request.top
    /\ request.top["pattern"] \in DOMAIN patterns

RequiredOf(request) == Range(patterns[request.top["pattern"]].required)

\* the request obeys rules 1 to 4 (action, pattern present, metadata, environment)
WellFormedRequest(request) ==
    /\ Get(request.top, "action", "create") \in {"create", "destroy"}
    /\ "pattern" \in DOMAIN request.top
    /\ request.has_metadata
    /\ \A f \in Range(RequiredMetadata) : f \in DOMAIN request.metadata
    /\ request.metadata["environment"] \in {"dev", "staging", "prod"}

\* C5 as stated: for a known pattern the missing-config errors are exactly the
\* required names other than `name` that config lacks, and a request whose
\* config lacks only `name` resolves with name = metadata.project.
C5_Original ==
    /\ (ValidateCalled /\ KnownPatternRequest(call.request)) =>
          \A f \in RequiredOf(call.request) :
              CountErrors(call.outcome.errors, "Missing required config field", f)
              = Bit(f # "name" /\ f \notin DOMAIN ConfigOf(call.request))
    /\ (ResolveCalled /\ KnownPatternRequest(call.request)
        /\ WellFormedRequest(call.request)
        /\ RequiredOf(call.request) \ DOMAIN ConfigOf(call.request) = {"name"}) =>
          /\ call.outcome.raised = ""
          /\ call.outcome.tfvars["name"] = call.request.metadata["project"]

\* C5 amended: for a known pattern the missing-config errors are exactly the
\* required names, `name` included, that config lacks, one error each; a
\* request that lacks a required `name` is not resolved, and name falls back to
\* metadata.project only where the pattern does not require `name`.
C5_RequiredConfig ==
    /\ (ValidateCalled /\ KnownPatternRequest(call.request)) =>
          /\ \A f \in RequiredOf(call.request) :
                CountErrors(call.outcome.errors, "Missing required config field", f)
                = Bit(f \notin DOMAIN ConfigOf(call.request))
          /\ CountKind(call.outcome.errors, "Missing required config field")
             = Cardinality(RequiredOf(call.request) \ DOMAIN ConfigOf(call.request))
    /\ (ResolveCalled /\ KnownPatternRequest(call.request)
        /\ "name" \in RequiredOf(call.request)
        /\ "name" \notin DOMAIN ConfigOf(call.request)) =>
          call.outcome.raised = "ValueError"
    /\ (ResolveCalled /\ call.outcome.raised = ""
        /\ "name" \notin DOMAIN ConfigOf(call.request)) =>
          /\ "name" \notin RequiredOf(call.request)
          /\ call.outcome.tfvars["name"] = call.request.metadata["project"]

\* validate was called on an otherwise well-formed keyvault request without
\* config.name and reported the missing name
C5_Witness ==
    /\ ValidateCalled
    /\ WellFormedRequest(call.request)
    /\ call.request.top["pattern"] = "keyvault"
    /\ "name" \notin DOMAIN ConfigOf(call.request)
    /\ call.outcome.errors = <<Err("Missing required config field", "name")>>

\* C6 as stated, for rules 1 to 4: each violated rule contributes exactly one
\* error, and the environment rule is reported whenever the environment is not
\* one of dev, staging, prod.
C6_Original ==
    ValidateCalled =>
        LET request == call.request
            errors  == call.outcome.errors
            meta    == MetadataOf(request)
            rule1   == Get(request.top, "action", "create") \notin {"create", "destroy"}
            rule2   == "pattern" \notin DOMAIN request.top
            rule3   == \/ ~request.has_metadata
                       \/ \E f \in Range(RequiredMetadata) : f \notin DOMAIN meta
            rule4   == Get(meta, "environment", "") \notin {"dev", "staging", "prod"}
        IN  /\ CountKind(errors, "Invalid action") = Bit(rule1)
            /\ CountErrors(errors, "Missing required field", "pattern") = Bit(rule2)
            /\ CountErrors(errors, "Missing required field", "metadata")
               + CountKind(errors, "Missing required metadata field") = Bit(rule3)
            /\ CountKind(errors, "Invalid environment") = Bit(rule4)

\* C6 amended: no rule short-circuits another, and the error list holds exactly
\*   one error for an invalid action, one for an absent pattern key,
\*   one for absent metadata, else one per missing metadata field plus one for
\*     an environment not in dev/staging/prod (so a missing environment key is
\*     reported twice, and absent metadata gets no environment error),
\*   at most one unknown-pattern error, present whenever the pattern value is a
\*     non-empty string that is no catalog name,
\*   one per required config field that config lacks when the pattern is known.
C6_AllViolationsReported ==
    ValidateCalled =>
        LET request == call.request
            errors  == call.outcome.errors
            meta    == MetadataOf(request)
            missing_meta == {f \in Range(RequiredMetadata) : f \notin DOMAIN meta}
            missing_cfg == IF KnownPatternRequest(request)
                           THEN RequiredOf(request) \ DOMAIN ConfigOf(request)
                           ELSE {}
        IN  /\ CountKind(errors, "Invalid action")
               = Bit(Get(request.top, "action", "create") \notin {"create", "destroy"})
            /\ CountErrors(errors, "Missing required field", "pattern")
               = Bit("pattern" \notin DOMAIN request.top)
            /\ CountErrors(errors, "Missing required field", "metadata")
               = Bit(~request.has_metadata)
            /\ \A f \in Range(RequiredMetadata) :
                  CountErrors(errors, "Missing required metadata field", f)
                  = Bit(request.has_metadata /\ f \in missing_meta)
            /\ CountKind(errors, "Invalid environment")
               = Bit(request.has_metadata
                     /\ Get(meta, "environment", "") \notin {"dev", "staging", "prod"})
            /\ CountKind(errors, "Unknown pattern") <= 1
            /\ ("pattern" \in DOMAIN request.top
                /\ request.top["pattern"] \notin (DOMAIN patterns) \cup {"", NULL})
               => CountKind(errors, "Unknown pattern") = 1
            /\ \A f \in missing_cfg :
                  CountErrors(errors, "Missing required config field", f) = 1
            /\ Len(errors)
               = CountKind(errors, "Invalid action")
                 + CountErrors(errors, "Missing required field", "pattern")
                 + Bit(~request.has_metadata)
                 + Bit(request.has_metadata) * Cardinality(missing_meta)
                 + CountKind(errors, "Invalid environment")
                 + CountKind(errors, "Unknown pattern")
                 + Cardinality(missing_cfg)

\* validate was called on a document that breaks the action rule, lacks two
\* metadata fields and names an unknown pattern, and reported all of it
C6_Witness ==
    /\ ValidateCalled
    /\ call.request.has_metadata
    /\ DOMAIN call.request.metadata = {"project", "environment"}
    /\ CountKind(call.outcome.errors, "Invalid action") = 1
    /\ CountKind(call.outcome.errors, "Missing required metadata field") = 2
    /\ CountKind(call.outcome.errors, "Unknown pattern") = 1
    /\ Len(call.outcome.errors) = 4

\* C7: a document without pattern_version gets a warning from validate, its
\* result carries the warning, and valid is true exactly when there is no error.
C7_VersionWarning ==
    /\ ValidateCalled =>
          /\ "pattern_version" \notin DOMAIN call.request.top
                => call.outcome.warnings # <<>>
          /\ call.outcome.valid <=> call.outcome.errors = <<>>
    /\ \A n \in DOMAIN results :
          "pattern_version" \notin DOMAIN documents[n].top =>
              /\ "warnings" \in DOMAIN results[n]
              /\ results[n].warnings # <<>>

\* C8: an omitted action is create: no action error, the result says create, a
\* valid one is ordered after every destroy and counted in create_count; any
\* other action value than create and destroy makes the document invalid.
C8_DefaultAction ==
    /\ ValidateCalled =>
          /\ "action" \notin DOMAIN call.request.top
                => CountKind(call.outcome.errors, "Invalid action") = 0
          /\ ("action" \in DOMAIN call.request.top
              /\ call.request.top["action"] \notin {"create", "destroy"})
                => ~call.outcome.valid
    /\ \A n \in DOMAIN results :
          /\ "action" \notin DOMAIN documents[n].top => results[n].action = "create"
          /\ ("action" \in DOMAIN documents[n].top
              /\ documents[n].top["action"] \notin {"create", "destroy"})
                => ~results[n].valid
    /\ BatchResolved =>
          \A n \in DOMAIN results :
              (results[n].valid /\ "action" \notin DOMAIN documents[n].top) =>
                  \E b \in DOMAIN execution_order :
                      /\ execution_order[b] = results[n].index
                      /\ \A a \in DOMAIN execution_order :
                            results[ResultAt(execution_order[a])].action = "destroy"
                                => a < b
    /\ BatchAnswered =>
          BatchOutput.create_count
          = Cardinality({n \in DOMAIN results :
                            /\ results[n].valid
                            /\ Get(documents[n].top, "action", "create") = "create"})

\* a batch with a valid document without action and a valid destroy was answered
C8_Witness ==
    /\ BatchAnswered
    /\ \E n, m \in DOMAIN results :
          /\ "action" \notin DOMAIN documents[n].top
          /\ results[n].valid
          /\ results[m].valid /\ results[m].action = "destroy"
          /\ n < m
    /\ BatchOutput.create_count >= 1

ResolveReturned == ResolveCalled /\ call.outcome.raised = ""

\* C9: resolve uses config.size when the request gives it, else the
\* environment's entry of environment_defaults, else "small"; a dev document
\* without config.size is sized by environment_defaults["dev"].
C9_SizeDefaulting ==
    ResolveReturned =>
        LET config      == ConfigOf(call.request)
            environment == call.request.metadata["environment"]
            defaults    == sizing_defaults.environment_defaults
            pattern     == patterns[call.request.top["pattern"]]
            expected    == IF "size" \in DOMAIN config THEN config["size"]
                           ELSE IF environment \in DOMAIN defaults
                                THEN defaults[environment]
                                ELSE "small"
        IN  /\ call.outcome.size = expected
            /\ (expected \in DOMAIN pattern.sizing
                /\ environment \in DOMAIN pattern.sizing[expected]) =>
                  \A k \in DOMAIN pattern.sizing[expected][environment] :
                      k \in DOMAIN call.outcome.tfvars

\* a staging document without config.size was resolved with the table's
\* default for staging, which is not "small"
C9_Witness ==
    /\ ResolveReturned
    /\ "size" \notin DOMAIN ConfigOf(call.request)
    /\ call.request.metadata["environment"] = "staging"
    /\ "staging" \in DOMAIN sizing_defaults.environment_defaults
    /\ call.outcome.size = "medium"
    /\ call.request.top["pattern"] = "postgresql"
    /\ call.outcome.sizing = [sku |-> "GP_Standard_D2s", storage_mb |-> "65536"]

\* C10: the sizing parameter set is the whole of pattern.sizing[size][environment]
\* when that entry exists; only otherwise the common_skus entry of the pattern
\* and size, all its keys when it is an object and the single key sku when it
\* is a scalar; with no entry in either the set is empty, and resolve returns.
C10_SizingResolution ==
    /\ ResolveReturned =>
        LET environment == call.request.metadata["environment"]
            name        == call.request.top["pattern"]
            pattern     == patterns[name]
            size        == call.outcome.size
            sizing      == call.outcome.sizing
            common      == sizing_defaults.common_skus
            in_pattern  == size \in DOMAIN pattern.sizing
                           /\ environment \in DOMAIN pattern.sizing[size]
            in_common   == name \in DOMAIN common /\ size \in DOMAIN common[name]
        IN  /\ in_pattern => sizing = pattern.sizing[size][environment]
            /\ (~in_pattern /\ in_common /\ common[name][size].is_dict)
                  => sizing = common[name][size].object
            /\ (~in_pattern /\ in_common /\ ~common[name][size].is_dict)
                  => /\ DOMAIN sizing = {"sku"}
                     /\ sizing["sku"] = common[name][size].scalar
            /\ (~in_pattern /\ ~in_common) => DOMAIN sizing = {}
    /\ (ResolveCalled /\ validate_request(impl, call.request).valid
        /\ KnownPatternRequest(call.request)) => call.outcome.raised = ""

\* a request with a size no table knows was resolved, with an empty sizing set
C10_Witness ==
    /\ ResolveReturned
    /\ call.outcome.size = "xl"
    /\ DOMAIN call.outcome.sizing = {}
    /\ "keyvault" \in DOMAIN sizing_defaults.common_skus
    /\ call.request.top["pattern"] = "keyvault"

-----------------------------------------------------------------------------
(* Resolved output *)

IdentityKeys ==
    {"project", "environment", "business_unit", "owners", "location",
     "pattern_name", "name"}

\* tfvars holds the seven identity keys, with the two documented defaults
HasIdentity(request, tfvars) ==
    /\ IdentityKeys \subseteq DOMAIN tfvars
    /\ "location" \notin DOMAIN request.metadata => tfvars["location"] = "eastus"
    /\ "name" \notin DOMAIN ConfigOf(request)
          => tfvars["name"] = request.metadata["project"]

\* C11: every output of resolve, and the tfvars of every valid result of a
\* batch, holds the seven identity keys project, environment, business_unit,
\* owners, location, pattern_name and name, with location = "eastus" when
\* metadata.location is omitted and name = metadata.project when config.name is
\* absent; a document that passes validation and names a catalog pattern is
\* resolved.
C11_IdentityKeys ==
    /\ ResolveReturned => HasIdentity(call.request, call.outcome.tfvars)
    /\ (ResolveCalled /\ validate_request(impl, call.request).valid
        /\ KnownPatternRequest(call.request)) => ResolveReturned
    /\ \A n \in DOMAIN results :
          results[n].valid => /\ results[n].tfvars # NoneValue
                              /\ HasIdentity(documents[n], results[n].tfvars[1])

\* a document with neither metadata.location nor config.name was resolved
C11_Witness ==
    /\ ResolveReturned
    /\ "location" \notin DOMAIN call.request.metadata
    /\ "name" \notin DOMAIN ConfigOf(call.request)
    /\ call.outcome.tfvars["location"] = "eastus"
    /\ call.outcome.tfvars["name"] = "my-app"
    /\ call.outcome.tfvars["pattern_name"] = "storage"

\* the entries of pattern.config.optional that declare a field: the mappings of
\* the list shape, every entry of the flat-mapping shape
DeclaredOptional(pattern) ==
    {n \in DOMAIN pattern.optional :
        pattern.optional_is_list => pattern.optional[n].is_dict}

DeclaresDefault(item) == item.spec_is_dict /\ "default" \in DOMAIN item.spec

\* C12: for every field declared in pattern.config.optional, in the list shape
\* and in the flat-mapping shape, the output of resolve holds the request's
\* config value when the request gives one (also where a default is declared),
\* else the declared default, else the step sets nothing: the output has the
\* field only with the value the sizing set gave it or, the sizing set lacking
\* it, as the identity field of that name or as a conditional feature.
C12_OptionalLayering ==
    ResolveReturned =>
        LET pattern      == patterns[call.request.top["pattern"]]
            config       == ConfigOf(call.request)
            environment  == call.request.metadata["environment"]
            tfvars       == call.outcome.tfvars
            sizing       == call.outcome.sizing
            conditionals == sizing_defaults.conditional_features
        IN  \A n \in DeclaredOptional(pattern) :
                LET item == pattern.optional[n]
                    k    == item.key
                IN  IF k \in DOMAIN config
                    THEN k \in DOMAIN tfvars /\ tfvars[k] = config[k]
                    ELSE IF DeclaresDefault(item)
                    THEN k \in DOMAIN tfvars /\ tfvars[k] = item.spec["default"]
                    ELSE IF k \in DOMAIN sizing
                    THEN tfvars[k] = sizing[k]
                    ELSE k \in DOMAIN tfvars =>
                            IF k \in IdentityKeys
                            THEN tfvars[k]
                                 = IdentityVars(call.request, pattern.name)[k]
                            ELSE /\ k \in DOMAIN conditionals
                                 /\ tfvars[k] = Get(conditionals[k], environment, "False")

\* a postgresql request was resolved whose config.sku replaces both the sizing
\* value and the declared default, while backup_retention_days took its default
C12_Witness ==
    /\ ResolveReturned
    /\ call.request.top["pattern"] = "postgresql"
    /\ "sku" \in DOMAIN ConfigOf(call.request)
    /\ call.outcome.sizing = [sku |-> "GP_Standard_D2s", storage_mb |-> "65536"]
    /\ call.outcome.tfvars["sku"] = "custom"
    /\ call.outcome.tfvars["backup_retention_days"] = "7"
    /\ "high_availability" \notin DOMAIN call.outcome.tfvars

\* C13: after resolve every feature named in conditional_features is a key of
\* the output.  Its value is the one optional-config layering set (the request's
\* value, else the declared default), else the one the sizing set holds, and
\* only when neither set it conditional_features[feature][environment], or
\* false when the feature has no entry for the environment.
C13_ConditionalPrecedence ==
    ResolveReturned =>
        LET pattern      == patterns[call.request.top["pattern"]]
            config       == ConfigOf(call.request)
            environment  == call.request.metadata["environment"]
            tfvars       == call.outcome.tfvars
            sizing       == call.outcome.sizing
            conditionals == sizing_defaults.conditional_features
            declared(f)  == {n \in DeclaredOptional(pattern) : pattern.optional[n].key = f}
        IN  \A f \in DOMAIN conditionals :
                /\ f \in DOMAIN tfvars
                /\ IF declared(f) # {} /\ f \in DOMAIN config
                   THEN tfvars[f] = config[f]
                   ELSE IF \E n \in declared(f) : DeclaresDefault(pattern.optional[n])
                   THEN \E n \in declared(f) :
                           /\ DeclaresDefault(pattern.optional[n])
                           /\ tfvars[f] = pattern.optional[n].spec["default"]
                   ELSE IF f \in DOMAIN sizing
                   THEN tfvars[f] = sizing[f]
                   ELSE IF environment \in DOMAIN conditionals[f]
                   THEN tfvars[f] = conditionals[f][environment]
                   ELSE tfvars[f] = "False"

\* a prod keyvault request was resolved whose sizing entry switches diagnostics
\* off where the table's value for prod is on, and access review, which the
\* sizing entry leaves alone, took the table's value
C13_Witness ==
    /\ ResolveReturned
    /\ call.request.metadata["environment"] = "prod"
    /\ "enable_diagnostics" \in DOMAIN call.outcome.sizing
    /\ call.outcome.sizing["enable_diagnostics"] = "False"
    /\ "enable_access_review" \in DOMAIN sizing_defaults.conditional_features
    /\ sizing_defaults.conditional_features["enable_diagnostics"]["prod"] = "True"
    /\ call.outcome.tfvars["enable_diagnostics"] = "False"
    /\ call.outcome.tfvars["enable_access_review"] = "True"

\* the request without the reviewers list
WithoutReviewers(request) ==
    [request EXCEPT !.config =
        Restrict(request.config, DOMAIN request.config \ {"access_reviewers"})]

AccessReview(tfvars) == Get(tfvars, "enable_access_review", NULL)

\* the flag is on only through the sizing set, the request's own flag or the
\* table's value for the environment, and it is what the request without
\* reviewers gets
ReviewersAreInert(request, tfvars) ==
    LET other        == resolve(impl, WithoutReviewers(request))
        environment  == request.metadata["environment"]
        sizing       == resolve_sizing(patterns[request.top["pattern"]],
                                       SizeOf(ConfigOf(request), environment), environment)
        conditionals == sizing_defaults.conditional_features
    IN  /\ other.raised = ""
        /\ AccessReview(tfvars) = AccessReview(other.tfvars)
        /\ EnvironmentFeatures(tfvars) = EnvironmentFeatures(other.tfvars)
        /\ Truthy(AccessReview(tfvars)) =>
              \/ Truthy(Get(sizing, "enable_access_review", NULL))
              \/ "enable_access_review" \in DOMAIN ConfigOf(request)
              \/ /\ "enable_access_review" \in DOMAIN conditionals
                 /\ Truthy(Get(conditionals["enable_access_review"], environment, "False"))

\* C14: the resolved enable_access_review of a valid request, and the
\* environment features listed for it, are those of the same request without
\* config.access_reviewers, so two valid requests that differ only in the
\* reviewers get the same flag; the flag is on only by the sizing set, by the
\* request's own enable_access_review or by the table's value for the
\* environment.
C14_NoSilentEnable ==
    /\ ResolveReturned => ReviewersAreInert(call.request, call.outcome.tfvars)
    /\ \A n \in DOMAIN results :
          (results[n].valid /\ "access_reviewers" \in DOMAIN ConfigOf(documents[n])) =>
              /\ ReviewersAreInert(documents[n], results[n].tfvars[1])
              /\ "environment_features" \in DOMAIN results[n] =>
                    results[n].environment_features
                    = EnvironmentFeatures(resolve(impl, WithoutReviewers(documents[n])).tfvars)

\* a keyvault request that names reviewers was resolved with the list in the
\* output and access review off
C14_Witness ==
    /\ ResolveReturned
    /\ "access_reviewers" \in DOMAIN ConfigOf(call.request)
    /\ "access_reviewers" \in DOMAIN call.outcome.tfvars
    /\ call.outcome.tfvars["access_reviewers"] = <<"r@co.com">>
    /\ AccessReview(call.outcome.tfvars) = "False"

CostCalled == call.op = "get_cost_estimate"

\* C15: for a request that names a known pattern the estimate is
\* pattern.estimated_costs[size][environment], the size being config.size, else
\* the environment's default size, else "small"; when the pattern has no entry
\* for the pair the estimate is null: the answer carries a null
\* estimated_monthly_cost_usd and no error value.
C15_CostEstimate ==
    (CostCalled /\ KnownPatternRequest(call.request)
     /\ "environment" \in DOMAIN MetadataOf(call.request)) =>
        LET config      == ConfigOf(call.request)
            environment == call.request.metadata["environment"]
            defaults    == sizing_defaults.environment_defaults
            size        == IF "size" \in DOMAIN config THEN config["size"]
                           ELSE IF environment \in DOMAIN defaults
                                THEN defaults[environment]
                                ELSE "small"
            costs       == patterns[call.request.top["pattern"]].estimated_costs
            estimate    == call.outcome
        IN  /\ "error" \notin DOMAIN estimate
            /\ "estimated_monthly_cost_usd" \in DOMAIN estimate
            /\ IF size \in DOMAIN costs /\ environment \in DOMAIN costs[size]
               THEN estimate.estimated_monthly_cost_usd = Some(costs[size][environment])
               ELSE estimate.estimated_monthly_cost_usd = NoneValue

\* C16: the state key of every valid result is
\* business_unit/environment/project/{pattern}-{name}/terraform.tfstate, spelled
\* with the business_unit, environment, project, pattern_name and name of that
\* result's resolved tfvars, also when config.name is absent and name is
\* defaulted.
C16_StateKey ==
    \A n \in DOMAIN results :
        (results[n].valid /\ "state_key" \in DOMAIN results[n]) =>
            LET tfvars == results[n].tfvars[1]
            IN  results[n].state_key
                = Some(Chars(tfvars["business_unit"]) \o <<"/">>
                       \o Chars(tfvars["environment"]) \o <<"/">>
                       \o Chars(tfvars["project"]) \o <<"/">>
                       \o Chars(tfvars["pattern_name"]) \o <<"-">>
                       \o Chars(tfvars["name"]) \o <<"/", "terraform.tfstate">>)

\* C17: every result of resolve_all, in both implementations, carries index,
\* action, pattern, valid, errors and warnings, and every valid result carries
\* the resolved tfvars, a cost estimate (which may be null) and a state key.
C17_ResultShape ==
    \A n \in DOMAIN results :
        /\ {"index", "action", "pattern", "valid", "errors", "warnings"}
              \subseteq DOMAIN results[n]
        /\ results[n].valid =>
              /\ "tfvars" \in DOMAIN results[n]
              /\ results[n].tfvars # NoneValue
              /\ {"cost_estimate", "estimated_cost_usd"} \cap DOMAIN results[n] # {}
              /\ "state_key" \in DOMAIN results[n]
              /\ results[n].state_key # NoneValue

\* main has stopped on a submission with documents: answered, or died
BatchEnded == pc \in {"done", "crashed"} /\ documents # <<>>

\* C18: when main has ended, every document that is answered when it is
\* submitted alone has a result in the batch, whatever the other documents and
\* its position are: the result has the document's position as index and the
\* validity, errors, warnings and tfvars that validating and resolving the
\* document alone give; the execution order is a function of the results.
C18_BatchIndependence ==
    BatchEnded =>
        /\ \A n \in DOMAIN documents :
              LET validation == validate_request(impl, documents[n])
                  resolved   == resolve(impl, documents[n])
              IN  resolved.raised \in {"", "ValueError"} =>
                      /\ BatchResolved
                      /\ results[n].index = n - 1
                      /\ results[n].valid = validation.valid
                      /\ results[n].errors = validation.errors
                      /\ "warnings" \in DOMAIN results[n]
                            => results[n].warnings = validation.warnings
                      /\ results[n].tfvars = IF validation.valid
                                             THEN Some(resolved.tfvars) ELSE NoneValue
        /\ BatchResolved => execution_order = compute_execution_order(results)

EveryResultValid ==
    \A n \in DOMAIN documents : n \in DOMAIN results /\ results[n].valid

\* C19: when main has ended on a submission with documents, the batch-level
\* flag is true exactly when every document's result is valid; the dry-run
\* function answers 200 when it is true and 400 when it is not, the script
\* exits 0 exactly when it is true, and the answer holds one entry of detail per
\* document either way.
C19_BatchValidity ==
    BatchEnded =>
        IF impl = "cli"
        THEN /\ pc = "done"
             /\ response.exit_code = 0 <=> EveryResultValid
             /\ Len(IF response.mode = "cost" THEN response.output
                    ELSE IF response.mode = "validate" THEN response.output.validations
                    ELSE response.output.patterns)
                = Len(documents)
             /\ response.mode # "cost" =>
                   (response.output.all_valid <=> EveryResultValid)
        ELSE /\ response.status_code = (IF EveryResultValid THEN 200 ELSE 400)
             /\ "body" \in DOMAIN response
             /\ response.body.valid <=> EveryResultValid
             /\ Len(response.body.documents) = Len(documents)

\* the result without the position of its document
Unindexed(r) == [k \in DOMAIN r \ {"index"} |-> r[k]]

-----------------------------------------------------------------------------
(* Frame *)

-----------------------------------------------------------------------------
(* Concurrent invocations *)

Done(c) == c \in DOMAIN callers /\ callers[c].pc = "done"

\* C22: under every interleaving of the callers' steps, a caller that has
\* answered used a resolver instance holding the whole catalog and the sizing
\* table of the files, and its response is the one the same body gets from a
\* call that runs alone on the loaded files.
C22_ConcurrentCalls ==
    \A c \in Callers :
       Done(c) =>
          /\ callers[c].self \in DOMAIN instances
          /\ IsLoaded(instances[callers[c].self])
          /\ patterns = files.patterns
          /\ pattern_keys = files.keys
          /\ sizing_defaults = files.sizing
          /\ callers[c].response = handle("dryrun", callers[c].body)

\* two first calls raced: both found the global unset and both built an
\* instance, and one of them answered from the instance the other one built
C22_Witness ==
    /\ \A c \in Callers : Done(c)
    /\ DOMAIN instances = Callers
    /\ \E c \in Callers : callers[c].self # c
    /\ \E c \in Callers : callers[c].response.status_code = 200

-----------------------------------------------------------------------------
(* Unparseable documents *)

WellFormed(batch) == SelectSeq(batch, LAMBDA d : ~d.none /\ ~d.malformed)

\* C23: when main has ended on a submission with a document that cannot be
\* parsed, the documents of the submission that can be parsed have been
\* validated and resolved: each of them has a result.
C23_MalformedIsLocal ==
    (/\ pc \in {"done", "crashed"}
     /\ \E n \in DOMAIN submitted : submitted[n].malformed)
    => Len(results) = Len(WellFormed(submitted))

-----------------------------------------------------------------------------
(* Counts of the batch output *)

\* positions of the documents found valid whose own action (create when the
\* document names none) is `action`
ValidWith(action) ==
    {n \in DOMAIN results :
        results[n].valid /\ Get(documents[n].top, "action", "create") = action}

InvalidOnes == {n \in DOMAIN results : ~results[n].valid}

\* C24: in the batch output create_count is the number of valid create
\* documents, destroy_count the number of valid destroy documents, the
\* execution order is as long as the two together, and document_count is the
\* two plus the number of invalid documents.
C24_Counts ==
    BatchAnswered =>
       /\ BatchOutput.create_count = Cardinality(ValidWith("create"))
       /\ BatchOutput.destroy_count = Cardinality(ValidWith("destroy"))
       /\ Len(BatchOutput.execution_order)
             = BatchOutput.create_count + BatchOutput.destroy_count
       /\ BatchOutput.document_count
             = BatchOutput.create_count + BatchOutput.destroy_count
               + Cardinality(InvalidOnes)

\* three valid creates and one valid destroy: counts 3 and 1, an order of
\* length 4 that starts with the index of the destroy
C24_Witness ==
    /\ BatchAnswered
    /\ documents = <<CreateDoc, DefaultActionDoc, DestroyDoc, CreateDoc>>
    /\ BatchOutput.create_count = 3
    /\ BatchOutput.destroy_count = 1
    /\ Len(BatchOutput.execution_order) = 4
    /\ BatchOutput.execution_order[1] = 2

-----------------------------------------------------------------------------
(* Result indices *)

RECURSIVE PositionsFrom(_, _)
\* the zero-based positions, from position `at` on, of the documents of
\* `batch` that are not empty
PositionsFrom(batch, at) ==
    IF at >= Len(batch) THEN <<>>
    ELSE IF batch[at + 1].none THEN PositionsFrom(batch, at + 1)
    ELSE <<at>> \o PositionsFrom(batch, at + 1)

\* C25: the n-th result carries the zero-based position that its document,
\* the n-th one that is not empty, has in the submitted sequence; the indices
\* ascend strictly and every index of the execution order is the index of
\* exactly one result.
C25_OriginalIndex ==
    BatchResolved =>
       /\ \A n \in DOMAIN results :
             results[n].index = PositionsFrom(submitted, 0)[n]
       /\ \A n, m \in DOMAIN results :
             n < m => results[n].index < results[m].index
       /\ pc = "done" =>
             \A k \in DOMAIN execution_order :
                Cardinality({n \in DOMAIN results :
                               results[n].index = execution_order[k]}) = 1

-----------------------------------------------------------------------------
(* The two implementations *)

\* the results the resolver of implementation `which` gives for the documents
ResultsOf(which) ==
    [n \in DOMAIN documents |-> DocumentResult(which, n - 1, documents[n])]

-----------------------------------------------------------------------------
(* Sizing against optional config *)

\* C27: for a key that the sizing set holds and the pattern declares as
\* optional config, the output has the request's override when config gives
\* one, otherwise the declared default in place of the sizing value, and the
\* sizing value only when the key has neither override nor default.
C27_SizingVersusOptional ==
    ResolveReturned =>
        LET pattern == patterns[call.request.top["pattern"]]
            config  == ConfigOf(call.request)
            tfvars  == call.outcome.tfvars
            sizing  == call.outcome.sizing
        IN  \A n \in DeclaredOptional(pattern) :
               LET item == pattern.optional[n]
                   k    == item.key
               IN  k \in DOMAIN sizing =>
                      /\ k \in DOMAIN tfvars
                      /\ tfvars[k] = IF k \in DOMAIN config THEN config[k]
                                     ELSE IF DeclaresDefault(item)
                                          THEN item.spec["default"]
                                          ELSE sizing[k]

\* a small staging postgresql was resolved without overrides: the sizing set
\* holds sku and geo_redundant_backup, both declared optional; sku came out as
\* its declared default and geo_redundant_backup, which has none, as sized
C27_Witness ==
    /\ ResolveReturned
    /\ call.request.top["pattern"] = "postgresql"
    /\ call.outcome.sizing = [sku |-> "B_Standard_B2s", geo_redundant_backup |-> "True"]
    /\ "sku" \notin DOMAIN ConfigOf(call.request)
    /\ call.outcome.tfvars["sku"] = "B_Standard_B1ms"
    /\ call.outcome.tfvars["geo_redundant_backup"] = "True"

-----------------------------------------------------------------------------
(* Config keys the pattern does not declare *)

\* the request with key k taken out of its config
Without(request, k) ==
    [request EXCEPT !.config = Restrict(@, DOMAIN @ \ {k})]

\* the keys pattern.config.optional declares
DeclaredKeys(pattern) == {pattern.optional[n].key : n \in DeclaredOptional(pattern)}

\* resolving the request of the call without key k returns the same tfvars
SameWithout(k) ==
    /\ resolve(impl, Without(call.request, k)).raised = ""
    /\ resolve(impl, Without(call.request, k)).tfvars = call.outcome.tfvars

\* the claim as stated: every config key other than name that the pattern does
\* not declare as optional can be dropped without changing the tfvars
C28_Original ==
    ResolveReturned =>
        LET pattern == patterns[call.request.top["pattern"]]
        IN  \A k \in DOMAIN ConfigOf(call.request) \ ({"name"} \cup DeclaredKeys(pattern)) :
               SameWithout(k)

\* C28: a config key that is not name, not size, not one of the pattern's
\* required fields and not declared in pattern.config.optional can be dropped
\* from the request without changing the tfvars; size is a key of the output
\* only when the pattern declares it or the sizing set or the conditional
\* features name it.
C28_UndeclaredInert ==
    ResolveReturned =>
        LET pattern == patterns[call.request.top["pattern"]]
            free    == DOMAIN ConfigOf(call.request)
                       \ ({"name", "size"} \cup Range(pattern.required)
                           \cup DeclaredKeys(pattern))
        IN  /\ \A k \in free : SameWithout(k)
            /\ "size" \in DOMAIN call.outcome.tfvars =>
                  \/ "size" \in DeclaredKeys(pattern)
                  \/ "size" \in DOMAIN call.outcome.sizing
                  \/ "size" \in DOMAIN sizing_defaults.conditional_features

\* a keyvault request gave sku and size, neither declared by the pattern: the
\* output has the sized sku, not the request's, and no size
C28_Witness ==
    /\ ResolveReturned
    /\ call.request.top["pattern"] = "keyvault"
    /\ "sku" \in DOMAIN ConfigOf(call.request)
    /\ Get(ConfigOf(call.request), "size", "") = "medium"
    /\ call.request.config["sku"] = "custom"
    /\ "sku" \in DOMAIN call.outcome.tfvars
    /\ call.outcome.tfvars["sku"] = "premium"
    /\ "size" \notin DOMAIN call.outcome.tfvars

-----------------------------------------------------------------------------
(* Identity fields after layering *)

\* C29: the output of resolve has the request's own project, environment,
\* business_unit and owners and the request's pattern as pattern_name,
\* whatever the sizing set, the optional config and the conditional features
\* of the catalog are.
C29_IdentityKept ==
    ResolveReturned =>
        /\ call.outcome.tfvars["project"] = call.request.metadata["project"]
        /\ call.outcome.tfvars["environment"] = call.request.metadata["environment"]
        /\ call.outcome.tfvars["business_unit"] = call.request.metadata["business_unit"]
        /\ call.outcome.tfvars["owners"] = call.request.metadata["owners"]
        /\ call.outcome.tfvars["pattern_name"] = call.request.top["pattern"]

-----------------------------------------------------------------------------
(* State keys *)

\* the five values the state key is spelled from
KeyTuple(tfvars) ==
    <<tfvars["business_unit"], tfvars["environment"], tfvars["project"],
      tfvars["pattern_name"], tfvars["name"]>>

\* C30: two valid results of a batch have the same state key only if their
\* documents agree on business_unit, environment, project, pattern and name.
C30_UniqueStateKey ==
    \A n, m \in DOMAIN results :
        (/\ results[n].valid /\ results[m].valid
         /\ "state_key" \in DOMAIN results[n]
         /\ "state_key" \in DOMAIN results[m]
         /\ results[n].state_key = results[m].state_key)
        => KeyTuple(results[n].tfvars[1]) = KeyTuple(results[m].tfvars[1])

====
